---------------------------- MODULE Spec2Model ----------------------------
(***************************************************************************)
(* Model of src/src/utils/logger.py: the Logger facade over the logging    *)
(* module (a named channel with a file and a console handler), its leveled *)
(* calls, log(), the time_logger decorator with _log_execution_time, and   *)
(* measure_api_call.                                                       *)
(*                                                                         *)
(* Text is a sequence of tokens (single characters where the code looks at *)
(* characters, longer literals elsewhere); an f-string is a concatenation. *)
(* The pictographs in front of the messages are left out or written as a   *)
(* word.  Durations are whole milliseconds.  An error is a record with its *)
(* type, its text (str(e)) and the identity of the instance.               *)
(*                                                                         *)
(* Every operation is one step; `last` keeps what the step was given, the  *)
(* events it caused in order (log records, and the call it wraps), and how *)
(* it ended.  A log record lists the handlers that wrote it.               *)
(*                                                                         *)
(* Four specifications share the state and the operations:                 *)
(*   Spec           construction on every channel and date, direct calls   *)
(*   SpecCalls      one channel: direct calls, log, measure_api_call       *)
(*   SpecDecorator  one channel: time_logger and decorated calls           *)
(*   SpecTiming     the formatting and severity rules of                   *)
(*                  _log_execution_time applied to drawn inputs            *)
(***************************************************************************)
EXTENDS Integers, Sequences, FiniteSets, TLC

VARIABLES
    today,      \* the date datetime.now() falls on
    fs_dirs,    \* directories that exist
    fs_files,   \* log files that have been opened (created)
    channels,   \* the logging module's registry: channel name -> logger object
    loggers,    \* the Logger instances constructed so far, in order
    wrappers,   \* the wrappers time_logger(...)(func) has returned, in order
    inp,        \* the drawn input of the timing specification
    last        \* the most recent operation: arguments, events and outcome

vars == <<today, fs_dirs, fs_files, channels, loggers, wrappers, inp, last>>

---------------------------------------------------------------------------
(* Bounds and input sets *)

MaxLoggers == 2

MaxWrappers == 2

MaxDurationMs == 130000

\* the dates the process runs through, each as <<year, month, day>>
Dates == << <<"2026","11","06">>, <<"2026","11","07">> >>

Bases == {"app", "api"}

Dirs == {"logs", "alt"}

Messages == {<<"hello">>, <<"disk ", "full">>}

None == <<"None">>

---------------------------------------------------------------------------
(* Text *)

LowerAlpha ==
    <<"a","b","c","d","e","f","g","h","i","j","k","l","m",
      "n","o","p","q","r","s","t","u","v","w","x","y","z">>

UpperAlpha ==
    <<"A","B","C","D","E","F","G","H","I","J","K","L","M",
      "N","O","P","Q","R","S","T","U","V","W","X","Y","Z">>

UpperChar(c) ==
    IF \E k \in 1..26 : LowerAlpha[k] = c
    THEN UpperAlpha[CHOOSE k \in 1..26 : LowerAlpha[k] = c]
    ELSE c

LowerChar(c) ==
    IF \E k \in 1..26 : UpperAlpha[k] = c
    THEN LowerAlpha[CHOOSE k \in 1..26 : UpperAlpha[k] = c]
    ELSE c

\* str.upper()
Upper(s) == [k \in 1..Len(s) |-> UpperChar(s[k])]

\* str.lower()
Lower(s) == [k \in 1..Len(s) |-> LowerChar(s[k])]

---------------------------------------------------------------------------
(* Severities of the logging module *)

DEBUG == 10

INFO == 20

WARNING == 30

ERROR == 40

CRITICAL == 50

S_DEBUG == <<"D","E","B","U","G">>

S_INFO == <<"I","N","F","O">>

S_WARNING == <<"W","A","R","N","I","N","G">>

S_ERROR == <<"E","R","R","O","R">>

S_CRITICAL == <<"C","R","I","T","I","C","A","L">>

S_ALL == <<"A","L","L">>

\* the five names both dictionaries are keyed by
LevelNames == {S_DEBUG, S_INFO, S_WARNING, S_ERROR, S_CRITICAL}

level_mapping ==
    [s \in LevelNames |->
        CASE s = S_DEBUG    -> DEBUG
          [] s = S_INFO     -> INFO
          [] s = S_WARNING  -> WARNING
          [] s = S_ERROR    -> ERROR
          [] s = S_CRITICAL -> CRITICAL]

\* level strings a caller passes: every valid name, in several letter cases,
\* "all", and names that are not levels
LevelStrings ==
    { <<"d","e","b","u","g">>,
      <<"I","n","f","o">>,
      S_INFO,
      <<"w","a","r","n","i","n","g">>,
      <<"e","r","r","o","R">>,
      <<"C","r","i","t","i","c","a","l">>,
      <<"a","l","l">>,
      <<"v","e","r","b","o","s","e">> }


---------------------------------------------------------------------------
(* The logging module's registry, handlers and dispatch *)

\* datetime.now().strftime("%Y-%m-%d")
DateDash(d) == <<Dates[d][1], "-", Dates[d][2], "-", Dates[d][3]>>

\* datetime.now().strftime('%Y%m%d')
DateCompact(d) == <<Dates[d][1], Dates[d][2], Dates[d][3]>>

\* _get_log_filename_with_timestamp
LogFilenameWithTimestamp(base, d) == <<base, "_">> \o DateDash(d) \o <<".log">>

\* logger_name of _setup_logger
LoggerName(base, d) == <<base, "_">> \o DateCompact(d)

ChannelNames == {LoggerName(b, d) : b \in Bases, d \in 1..Len(Dates)}

\* os.path.join(self.log_dir, ...)
LogFilePath(dir, base, d) == <<dir, "/">> \o LogFilenameWithTimestamp(base, d)

\* a logger object the registry has not configured yet: no handlers, and the
\* level it inherits from the root logger, which is left at WARNING
FreshChannel == [level |-> WARNING, handlers |-> <<>>]

\* logging.FileHandler(log_file_path) after setLevel
FileHandler(owner, path, level) ==
    [kind |-> "file", owner |-> owner, path |-> path, level |-> level]

\* logging.StreamHandler() after setLevel
StreamHandler(owner, level) ==
    [kind |-> "console", owner |-> owner, path |-> <<"stderr">>, level |-> level]

\* the identity of a handler object: who constructed it, and which one
HandlerId(h) == [kind |-> h.kind, owner |-> h.owner]

\* self.logger.<level>(msg): the record passes the channel's level, then each
\* attached handler at or below its severity writes it; with no handler
\* attached anywhere the module's last-resort handler (WARNING, stderr, bare
\* message) takes it.  The result is the sequence of records created.
Emit(chan, name, sev, msg) ==
    IF sev < chan.level
    THEN <<>>
    ELSE << [type |-> "record",
             sev  |-> sev,
             msg  |-> msg,
             name |-> name,
             sinks |-> {HandlerId(chan.handlers[k]) :
                          k \in {j \in 1..Len(chan.handlers) :
                                    sev >= chan.handlers[j].level}},
             lastResort |-> (Len(chan.handlers) = 0 /\ sev >= WARNING)] >>

\* the level _setup_logger gives both handlers
HandlerLevel(log_level) ==
    IF log_level = S_ALL
    THEN DEBUG
    ELSE IF log_level \in DOMAIN level_mapping
         THEN level_mapping[log_level]
         ELSE INFO

Return(v) == [kind |-> "return", value |-> v]

Raise(e) == [kind |-> "raise", exc |-> e]

---------------------------------------------------------------------------
(* Construction *)

Init ==
    /\ today = 1
    /\ fs_dirs = {}
    /\ fs_files = {}
    /\ channels = [n \in ChannelNames |-> FreshChannel]
    /\ loggers = <<>>
    /\ wrappers = <<>>
    /\ inp = [kind |-> "none"]
    /\ last = [op |-> "none", events |-> <<>>]

\* the channel after handlers.clear() and setLevel(logging.DEBUG)
ClearedChannel == [level |-> DEBUG, handlers |-> <<>>]

\* the handlers _setup_logger attaches, in the order it adds them
SetupHandlers(self, path, log_level) ==
    << FileHandler(self, path, HandlerLevel(log_level)),
       StreamHandler(self, HandlerLevel(log_level)) >>

\* the records _setup_logger emits, in order: the invalid-level warning is
\* sent while the channel's handler list is still the cleared one, the two
\* initialisation lines after both handlers are attached
SetupEvents(cleared, ready, name, path, log_level) ==
    (IF log_level /= S_ALL /\ log_level \notin DOMAIN level_mapping
     THEN Emit(cleared, name, WARNING,
               <<"Invalid log level '">> \o log_level \o <<"'. Using INFO level.">>)
     ELSE <<>>)
    \o Emit(ready, name, INFO, <<"Logger initialized with level: ">> \o log_level)
    \o Emit(ready, name, INFO, <<"Log file: ">> \o path)

\* Logger(log_filename, log_level, log_dir): __init__, _create_log_directory
\* and _setup_logger
Construct(log_filename, log_level, log_dir) ==
    /\ Len(loggers) < MaxLoggers
    /\ LET self    == Len(loggers) + 1
           level   == Upper(log_level)
           name    == LoggerName(log_filename, today)
           path    == LogFilePath(log_dir, log_filename, today)
           cleared == ClearedChannel
           ready   == [cleared EXCEPT !.handlers = SetupHandlers(self, path, level)]
       IN /\ fs_dirs' = fs_dirs \cup {log_dir}
          /\ fs_files' = fs_files \cup {path}
          /\ channels' = [channels EXCEPT ![name] = ready]
          /\ loggers' = Append(loggers,
                               [log_filename |-> log_filename,
                                log_level    |-> level,
                                log_dir      |-> log_dir,
                                logger       |-> name])
          /\ last' = [op     |-> "Logger",
                      self   |-> self,
                      level  |-> log_level,
                      events |-> SetupEvents(cleared, ready, name, path, level),
                      result |-> Return(self)]
    /\ UNCHANGED <<today, wrappers, inp>>

\* midnight passes
NextDay ==
    /\ today < Len(Dates)
    /\ today' = today + 1
    /\ UNCHANGED <<fs_dirs, fs_files, channels, loggers, wrappers, inp, last>>

---------------------------------------------------------------------------
(* Leveled logging calls *)

\* the channel object self.logger refers to
ChannelOf(self) == channels[loggers[self].logger]

debug(self, message) == Emit(ChannelOf(self), loggers[self].logger, DEBUG, message)

info(self, message) == Emit(ChannelOf(self), loggers[self].logger, INFO, message)

warning(self, message) == Emit(ChannelOf(self), loggers[self].logger, WARNING, message)

error(self, message) == Emit(ChannelOf(self), loggers[self].logger, ERROR, message)

critical(self, message) == Emit(ChannelOf(self), loggers[self].logger, CRITICAL, message)

\* level_methods[level](message), for a level that is one of its keys
level_methods(self, level, message) ==
    CASE level = S_DEBUG    -> debug(self, message)
      [] level = S_INFO     -> info(self, message)
      [] level = S_WARNING  -> warning(self, message)
      [] level = S_ERROR    -> error(self, message)
      [] level = S_CRITICAL -> critical(self, message)

\* log without level.upper(): the dictionary lookup is case-sensitive
log_case_sensitive(self, level, message) ==
    IF level \in LevelNames
    THEN level_methods(self, level, message)
    ELSE warning(self, <<"Invalid log level '">> \o level
                       \o <<"'. Message: ">> \o message)

\* Logger.log(level, message)
log(self, level, message) ==
    IF Upper(level) \in LevelNames
    THEN level_methods(self, Upper(level), message)
    ELSE warning(self, <<"Invalid log level '">> \o Upper(level)
                       \o <<"'. Message: ">> \o message)

\* what a call that changes nothing but the trace leaves behind
Called(op, self, fields, events, result) ==
    /\ last' = [op |-> op, self |-> self, events |-> events, result |-> result]
                  @@ fields
    /\ UNCHANGED <<today, fs_dirs, fs_files, channels, loggers, wrappers, inp>>

CallDebug(self, message) ==
    Called("debug", self, [message |-> message], debug(self, message), Return(None))

CallInfo(self, message) ==
    Called("info", self, [message |-> message], info(self, message), Return(None))

CallWarning(self, message) ==
    Called("warning", self, [message |-> message], warning(self, message), Return(None))

CallError(self, message) ==
    Called("error", self, [message |-> message], error(self, message), Return(None))

CallCritical(self, message) ==
    Called("critical", self, [message |-> message], critical(self, message), Return(None))

CallLog(self, level, message) ==
    Called("log", self, [level |-> level, message |-> message],
           log(self, level, message), Return(None))

---------------------------------------------------------------------------
(* Duration formatting.  d is a duration in milliseconds. *)

SecondMs == 1000

MinuteMs == 60000

DigitChars == <<"0","1","2","3","4","5","6","7","8","9">>

Digit(k) == DigitChars[k + 1]

RECURSIVE Dec(_)
\* the decimal digits of a natural number
Dec(n) == IF n < 10 THEN <<Digit(n)>> ELSE Dec(n \div 10) \o <<Digit(n % 10)>>

\* f"{x:.3f}" of x seconds, x given in milliseconds
Fixed3(ms) ==
    Dec(ms \div 1000)
    \o <<".", Digit((ms \div 100) % 10), Digit((ms \div 10) % 10), Digit(ms % 10)>>

\* f"{execution_time * 1000:.2f}ms"
Millis2(ms) == Dec(ms) \o <<".", "0", "0", "ms">>

\* time_str with `<=` for `<` in both comparisons
FormatExecutionTime_inclusive(execution_time) ==
    IF execution_time <= SecondMs
    THEN Millis2(execution_time)
    ELSE IF execution_time <= MinuteMs
         THEN Fixed3(execution_time) \o <<"s">>
         ELSE Dec(execution_time \div MinuteMs) \o <<"m ">>
              \o Fixed3(execution_time % MinuteMs) \o <<"s">>

\* time_str of _log_execution_time
FormatExecutionTime(execution_time) ==
    IF execution_time < SecondMs
    THEN Millis2(execution_time)
    ELSE IF execution_time < MinuteMs
         THEN Fixed3(execution_time) \o <<"s">>
         ELSE Dec(execution_time \div MinuteMs) \o <<"m ">>
              \o Fixed3(execution_time % MinuteMs) \o <<"s">>

\* time_str of measure_api_call, on both of its paths
FormatApiTime(execution_time) ==
    IF execution_time < SecondMs
    THEN Millis2(execution_time)
    ELSE Fixed3(execution_time) \o <<"s">>

---------------------------------------------------------------------------
(* measure_api_call *)

Urls == {"https://api.example/quotes"}

Methods == {"GET", "POST"}

StatusCodes == {200, 399, 400}

ContentLengths == {2048}

\* errors a wrapped callable or the HTTP client raises (Exception subclasses)
Errors ==
    { [type |-> "ValueError", text |-> <<"bad ", "value">>, id |-> "e1"],
      [type |-> "ConnectionError", text |-> <<"refused">>, id |-> "e2"] }

\* what requests.request(method, url) does: a response, or an error
Outcomes ==
    [kind : {"response"}, status_code : StatusCodes, content : ContentLengths]
    \cup [kind : {"raise"}, exc : Errors]

\* readings of time.perf_counter() at the start of a call
PerfCounterStarts == {0, 5000}

\* how long the HTTP request takes
ApiDurations == {0, 999, 1000}

\* the marker in front of the message
SuccessIcon == "OK"

FailureIcon == "X"

\* execution_time = end_time - start_time
ExecutionTime(start_time, end_time) == end_time - start_time

\* the try body of measure_api_call after the request returned `response`
ApiResponseEvents(self, url, method, response, execution_time) ==
    info(self, <<(IF response.status_code < 400 THEN SuccessIcon ELSE FailureIcon),
                 " API Response: ", method, " ", url,
                 " | Status: ">> \o Dec(response.status_code) \o <<
                 " | Time: ">> \o FormatApiTime(execution_time)
                 \o <<" | Size: ">> \o Dec(response.content) \o <<" bytes">>)

\* the except branch of measure_api_call
ApiFailedEvents(self, url, method, e, execution_time) ==
    error(self, <<FailureIcon, " API Call Failed: ", method, " ", url,
                  " | Time: ">> \o FormatApiTime(execution_time)
                  \o <<" | Error: ">> \o e.text)

\* the trace of measure_api_call: the announcement, the request, the outcome line
ApiEvents(self, url, method, outcome, execution_time) ==
    info(self, <<"API Call Started: ", method, " ", url>>)
    \o << [type |-> "request", method |-> method, url |-> url] >>
    \o (IF outcome.kind = "response"
        THEN ApiResponseEvents(self, url, method, outcome, execution_time)
        ELSE ApiFailedEvents(self, url, method, outcome.exc, execution_time))

\* measure_api_call with a bare `return None` in place of `raise`
ApiResult_swallow(outcome, execution_time, start_timestamp, end_timestamp) ==
    IF outcome.kind = "response"
    THEN Return([response       |-> outcome,
                 execution_time |-> execution_time,
                 status_code    |-> outcome.status_code,
                 start_time     |-> start_timestamp,
                 end_time       |-> end_timestamp])
    ELSE Return(None)

\* what measure_api_call hands back or raises
ApiResult(outcome, execution_time, start_timestamp, end_timestamp) ==
    IF outcome.kind = "response"
    THEN Return([response       |-> outcome,
                 execution_time |-> execution_time,
                 status_code    |-> outcome.status_code,
                 start_time     |-> start_timestamp,
                 end_time       |-> end_timestamp])
    ELSE Raise(outcome.exc)

MeasureApiCall(self, url, method, outcome, start_time, took) ==
    LET execution_time == ExecutionTime(start_time, start_time + took)
    IN Called("measure_api_call", self,
              [url |-> url, method |-> method, outcome |-> outcome, took |-> took],
              ApiEvents(self, url, method, outcome, execution_time),
              ApiResult(outcome, execution_time, today, today))

---------------------------------------------------------------------------
(* time_logger and _log_execution_time *)

\* an Optional value: None is the empty set
NoneVal == {}

Some(x) == {x}

The(opt) == CHOOSE x \in opt : TRUE

\* hasattr(obj, attr): an instance is a record of the attributes it has been given
HasAttr(obj, attr) == attr \in DOMAIN obj

\* raised by reading an attribute the instance does not have
AttributeError(id) ==
    [type |-> "AttributeError",
     text |-> <<"'Logger' object has no attribute '", "threshold_seconds", "'">>,
     id   |-> id]

Funcs == { [module |-> "__main__", name |-> "rebalance"],
           [module |-> "portfolio.sync", name |-> "pull"] }

Thresholds == {NoneVal, Some(5000)}

\* what the wrapped callable does: return a value or raise an error
Bodies == [kind : {"return"}, value : {"v1", "v2"}] \cup [kind : {"raise"}, exc : Errors]

\* how long the wrapped callable runs
CallDurations == {1000, 6000}

\* perf_counter ticks between the two readings of a call that takes both
Laters == {1}

\* start_timestamp.strftime('%H:%M:%S')
Started == "12:00:00"

SlowMs == 10000

ModerateMs == 5000

\* func_name of wrapper
FuncName(func) ==
    IF func.module /= "__main__" THEN <<func.module, ".", func.name>> ELSE <<func.name>>

\* start_msg of wrapper
StartMsg(func, include_args, args) ==
    <<"Starting execution: ">> \o FuncName(func)
    \o (IF include_args THEN <<" | Args: ", args, " | Kwargs: ", "{}">> ELSE <<>>)

\* log_msg of _log_execution_time
CompletionMsg(func_name, execution_time, success, error_msg) ==
    <<(IF success THEN "SUCCESS" ELSE "FAILED"), " | Function: ">> \o func_name
    \o <<" | Execution Time: ">> \o FormatExecutionTime(execution_time)
    \o <<" | Started: ", Started>>
    \o (IF ~success /\ error_msg /= NoneVal /\ The(error_msg) /= <<>>
        THEN <<" | Error: ">> \o The(error_msg)
        ELSE <<>>)

\* log_level of _log_execution_time
CompletionLevel(self, execution_time, success) ==
    IF ~success
    THEN <<"e","r","r","o","r">>
    ELSE IF execution_time > SlowMs
         THEN <<"w","a","r","n","i","n","g">>
         ELSE IF execution_time > ModerateMs
              THEN <<"i","n","f","o">>
              ELSE Lower(loggers[self].log_level)

\* _log_execution_time from "Format execution time" on
CompletionEvents(self, func_name, execution_time, success, error_msg) ==
    log(self, CompletionLevel(self, execution_time, success),
        CompletionMsg(func_name, execution_time, success, error_msg))

\* _log_execution_time: the records it emits, and the error it raises if any
log_execution_time(self, func_name, execution_time, success, error_msg, id) ==
    IF ~HasAttr(loggers[self], "threshold_seconds")
    THEN [raised |-> Some(AttributeError(id)), events |-> <<>>]
    ELSE IF /\ loggers[self].threshold_seconds /= NoneVal
            /\ The(loggers[self].threshold_seconds) /= 0
            /\ execution_time < The(loggers[self].threshold_seconds)
         THEN [raised |-> NoneVal, events |-> <<>>]
         ELSE [raised |-> NoneVal,
               events |-> CompletionEvents(self, func_name, execution_time,
                                           success, error_msg)]

\* time_logger(include_args, threshold_seconds)(func): the closure it returns
TimeLogger(self, include_args, threshold_seconds, func) ==
    /\ Len(wrappers) < MaxWrappers
    /\ wrappers' = Append(wrappers,
                          [self              |-> self,
                           include_args      |-> include_args,
                           threshold_seconds |-> threshold_seconds,
                           func              |-> func])
    /\ last' = [op |-> "time_logger", self |-> self, events |-> <<>>,
                result |-> Return(Len(wrappers) + 1)]
    /\ UNCHANGED <<today, fs_dirs, fs_files, channels, loggers, inp>>

\* the try statement of wrapper: `body` is what func did after `took`; a
\* second reading of the clock, `later` after the first, is taken when the
\* except clause catches an error raised while logging the success
WrapperTry(self, func_name, body, took, later) ==
    LET first == IF body.kind = "return"
                 THEN log_execution_time(self, func_name, took, TRUE, NoneVal, "a1")
                 ELSE [raised |-> Some(body.exc), events |-> <<>>]
    IN IF first.raised = NoneVal
       THEN [events |-> first.events, result |-> Return(body.value)]
       ELSE LET e == The(first.raised)
                second == log_execution_time(
                              self, func_name,
                              (IF body.kind = "return" THEN took + later ELSE took),
                              FALSE, Some(e.text), "a2")
            IN IF second.raised = NoneVal
               THEN [events |-> first.events \o second.events, result |-> Raise(e)]
               ELSE [events |-> first.events \o second.events,
                     result |-> Raise(The(second.raised))]

\* wrapper(*args): a call of the decorated function numbered w
Wrapper(w, args, body, start_time, took, later) ==
    LET c         == wrappers[w]
        func_name == FuncName(c.func)
        tried     == WrapperTry(c.self, func_name, body,
                                ExecutionTime(start_time, start_time + took), later)
    IN Called("wrapper", c.self,
              [w |-> w, body |-> body, took |-> took],
              debug(c.self, StartMsg(c.func, c.include_args, args))
                  \o << [type |-> "call", func |-> c.func] >>
                  \o tried.events,
              tried.result)

---------------------------------------------------------------------------
(* Specifications *)

\* the registry: Logger instances on every channel, across midnight, and
\* the five direct calls
Next ==
    \/ \E b \in Bases, l \in LevelStrings, d \in Dirs : Construct(b, l, d)
    \/ NextDay
    \/ \E i \in 1..Len(loggers), m \in Messages : CallDebug(i, m)
    \/ \E i \in 1..Len(loggers), m \in Messages : CallInfo(i, m)
    \/ \E i \in 1..Len(loggers), m \in Messages : CallWarning(i, m)
    \/ \E i \in 1..Len(loggers), m \in Messages : CallError(i, m)
    \/ \E i \in 1..Len(loggers), m \in Messages : CallCritical(i, m)

Spec == Init /\ [][Next]_vars

\* level selectors of the instances the call specifications construct: one
\* that passes everything, one that filters, "all", and one that is no level
CallerLevels ==
    { <<"d","e","b","u","g">>,
      <<"w","a","r","n","i","n","g">>,
      <<"a","l","l">>,
      <<"v","e","r","b","o","s","e">> }

\* the calls: Logger instances of one base name and directory, the direct
\* calls, log and measure_api_call
NextCalls ==
    \/ \E l \in CallerLevels : Construct("app", l, "logs")
    \/ \E i \in 1..Len(loggers), m \in Messages : CallDebug(i, m)
    \/ \E i \in 1..Len(loggers), m \in Messages : CallInfo(i, m)
    \/ \E i \in 1..Len(loggers), m \in Messages : CallWarning(i, m)
    \/ \E i \in 1..Len(loggers), m \in Messages : CallError(i, m)
    \/ \E i \in 1..Len(loggers), m \in Messages : CallCritical(i, m)
    \/ \E i \in 1..Len(loggers), l \in LevelStrings, m \in Messages : CallLog(i, l, m)
    \/ \E i \in 1..Len(loggers), u \in Urls, h \in Methods, o \in Outcomes,
          t \in PerfCounterStarts, k \in ApiDurations :
            MeasureApiCall(i, u, h, o, t, k)

SpecCalls == Init /\ [][NextCalls]_vars

\* the decorator: Logger instances of one base name and directory,
\* time_logger and calls of the functions it decorated
NextDecorator ==
    \/ \E l \in CallerLevels : Construct("app", l, "logs")
    \/ \E i \in 1..Len(loggers), a \in BOOLEAN, t \in Thresholds, f \in Funcs :
          TimeLogger(i, a, t, f)
    \/ \E w \in 1..Len(wrappers), b \in Bodies, t \in PerfCounterStarts,
          k \in CallDurations, j \in Laters :
            Wrapper(w, "(7,)", b, t, k, j)

SpecDecorator == Init /\ [][NextDecorator]_vars

---------------------------------------------------------------------------
(* The timing functions on drawn inputs *)

\* durations around every boundary of the formatting and severity rules
CompletionDurations ==
    {0, 500, 999, 1000, 2500, 4999, 5000, 5001, 9999, 10000, 10001,
     59999, 60000, 125500}

\* (success, error_msg) as wrapper passes them
CompletionOutcomes ==
    {[success |-> TRUE, error_msg |-> NoneVal]}
    \cup {[success |-> FALSE, error_msg |-> Some(e.text)] : e \in Errors}

TimingInputs ==
    [kind : {"format"}, d : 0..MaxDurationMs]
    \cup [kind : {"completion"}, d : CompletionDurations, level : LevelStrings,
          outcome : CompletionOutcomes, func : Funcs]

\* the state Logger("app", level, "logs") leaves behind when it is the
\* first thing the process does
InitTiming ==
    /\ inp \in TimingInputs
    /\ today = 1
    /\ wrappers = <<>>
    /\ last = [op |-> "none", events |-> <<>>]
    /\ IF inp.kind = "completion"
       THEN /\ fs_dirs = {"logs"}
            /\ fs_files = {LogFilePath("logs", "app", 1)}
            /\ loggers = << [log_filename |-> "app",
                             log_level    |-> Upper(inp.level),
                             log_dir      |-> "logs",
                             logger       |-> LoggerName("app", 1)] >>
            /\ channels = [n \in ChannelNames |->
                             IF n = LoggerName("app", 1)
                             THEN [ClearedChannel EXCEPT !.handlers =
                                      SetupHandlers(1, LogFilePath("logs", "app", 1),
                                                    Upper(inp.level))]
                             ELSE FreshChannel]
       ELSE /\ fs_dirs = {}
            /\ fs_files = {}
            /\ loggers = <<>>
            /\ channels = [n \in ChannelNames |-> FreshChannel]

\* both time_str computations applied to the drawn duration
ApplyFormat ==
    /\ inp.kind = "format"
    /\ last.op = "none"
    /\ last' = [op |-> "format", events |-> <<>>,
                time_str     |-> FormatExecutionTime(inp.d),
                api_time_str |-> FormatApiTime(inp.d)]
    /\ UNCHANGED <<today, fs_dirs, fs_files, channels, loggers, wrappers, inp>>

\* _log_execution_time below its threshold check (from "Format execution
\* time" to the log call), applied to the drawn call: what the method does
\* once the read of self.threshold_seconds does not stop it
ApplyCompletion ==
    /\ inp.kind = "completion"
    /\ last.op = "none"
    /\ last' = [op |-> "completion", self |-> 1,
                events |-> CompletionEvents(1, FuncName(inp.func), inp.d,
                                            inp.outcome.success,
                                            inp.outcome.error_msg)]
    /\ UNCHANGED <<today, fs_dirs, fs_files, channels, loggers, wrappers, inp>>

NextTiming == ApplyFormat \/ ApplyCompletion

SpecTiming == InitTiming /\ [][NextTiming]_vars

---------------------------------------------------------------------------
(* Vocabulary of the properties *)

IsRecord(e) == e.type = "record"

\* m occurs in text
Contains(text, m) ==
    \E k \in 0..(Len(text) - Len(m)) :
        \A j \in 1..Len(m) : text[k + j] = m[j]

\* the log records among the events of the last operation, in order
Records == SelectSeq(last.events, IsRecord)

\* the severity a level name stands for, in any letter case; "all" is DEBUG
SeverityNamed(l) ==
    CASE Lower(l) = <<"d","e","b","u","g">>             -> DEBUG
      [] Lower(l) = <<"i","n","f","o">>                 -> INFO
      [] Lower(l) = <<"w","a","r","n","i","n","g">>     -> WARNING
      [] Lower(l) = <<"e","r","r","o","r">>             -> ERROR
      [] Lower(l) = <<"c","r","i","t","i","c","a","l">> -> CRITICAL
      [] Lower(l) = <<"a","l","l">>                     -> DEBUG

IsLevelName(l) ==
    Lower(l) \in { <<"d","e","b","u","g">>, <<"i","n","f","o">>,
                   <<"w","a","r","n","i","n","g">>, <<"e","r","r","o","r">>,
                   <<"c","r","i","t","i","c","a","l">> }

IsSelector(l) == IsLevelName(l) \/ Lower(l) = <<"a","l","l">>

\* a record reached a file, the console
WrittenToFile(r) == \E h \in r.sinks : h.kind = "file"

WrittenToConsole(r) == \E h \in r.sinks : h.kind = "console"

\* the file a Logger instance opened when it was constructed
OwnLogFile(self) ==
    LogFilePath(loggers[self].log_dir, loggers[self].log_filename,
                CHOOSE d \in 1..Len(Dates) :
                    LoggerName(loggers[self].log_filename, d) = loggers[self].logger)

DirectOps == {"debug", "info", "warning", "error", "critical"}

SeverityOfOp(op) ==
    CASE op = "debug"    -> DEBUG
      [] op = "info"     -> INFO
      [] op = "warning"  -> WARNING
      [] op = "error"    -> ERROR
      [] op = "critical" -> CRITICAL

---------------------------------------------------------------------------
(* C8: log(level, message) *)

\* C8: log(level, message) never raises; when the level name is, in any
\* letter case, one of debug/info/warning/error/critical, exactly the record
\* of the corresponding direct method is created: that severity, the message
\* unchanged; for every other name exactly one record is created, at WARNING,
\* and its text contains the original message.
C8_LogDispatch ==
    last.op = "log" =>
        /\ last.result = Return(None)
        /\ Len(last.events) = 1
        /\ Records = last.events
        /\ IF IsLevelName(last.level)
           THEN /\ Records[1].sev = SeverityNamed(last.level)
                /\ Records[1].msg = last.message
                /\ Records = Emit(ChannelOf(last.self), loggers[last.self].logger,
                                  SeverityNamed(last.level), last.message)
           ELSE /\ Records[1].sev = WARNING
                /\ Contains(Records[1].msg, last.message)
                /\ Records[1].msg /= last.message

\* a name that is no level went to a WARNING record holding the message
C8_Witness ==
    /\ last.op = "log"
    /\ last.level = <<"v","e","r","b","o","s","e">>
    /\ last.message = <<"disk ", "full">>
    /\ Records[1].sev = WARNING
    /\ Contains(Records[1].msg, <<"disk ", "full">>)

---------------------------------------------------------------------------
(* C7: measure_api_call *)

\* C7: every measure_api_call first creates the INFO record announcing
\* method and URL, then performs the request, then ends in exactly one of two
\* ways: the request returned a response, one INFO result record follows
\* whose marker is the success marker exactly when the status code is below
\* 400, and the returned record carries the response's status code and a
\* non-negative duration; or the request raised an error, one ERROR record
\* with method, URL, duration and the error's text follows, and that same
\* error propagates.  Three events in all: never a result record and an error
\* record together, never an error swallowed.
C7_ApiCallOutcome ==
    last.op = "measure_api_call" =>
        /\ Len(last.events) = 3
        /\ IsRecord(last.events[1])
        /\ last.events[1].sev = INFO
        /\ Contains(last.events[1].msg, <<"API Call Started: ", last.method, " ", last.url>>)
        /\ last.events[2] = [type |-> "request", method |-> last.method, url |-> last.url]
        /\ IsRecord(last.events[3])
        /\ Contains(last.events[3].msg, <<last.method, " ", last.url>>)
        /\ IF last.outcome.kind = "response"
           THEN /\ last.events[3].sev = INFO
                /\ Contains(last.events[3].msg, <<" API Response: ">>)
                /\ last.events[3].msg[1] \in {SuccessIcon, FailureIcon}
                /\ (last.events[3].msg[1] = SuccessIcon) <=> (last.outcome.status_code < 400)
                /\ last.result.kind = "return"
                /\ last.result.value.response = last.outcome
                /\ last.result.value.status_code = last.outcome.status_code
                /\ last.result.value.execution_time >= 0
                /\ last.result.value.execution_time = last.took
           ELSE /\ last.events[3].sev = ERROR
                /\ Contains(last.events[3].msg, <<" API Call Failed: ">>)
                /\ Contains(last.events[3].msg,
                            <<" | Time: ">> \o FormatApiTime(last.took) \o <<" | Error: ">>)
                /\ Contains(last.events[3].msg, <<" | Error: ">> \o last.outcome.exc.text)
                /\ last.result = Raise(last.outcome.exc)

\* a request that raised: the ERROR record is there and the error came out
C7_Witness ==
    /\ last.op = "measure_api_call"
    /\ last.outcome.kind = "raise"
    /\ last.took = 999
    /\ last.events[3].sev = ERROR
    /\ last.result = Raise(last.outcome.exc)

---------------------------------------------------------------------------
(* C10: duration formatting *)

IsDigits(ts) == Len(ts) > 0 /\ \A k \in 1..Len(ts) : \E j \in 1..10 : DigitChars[j] = ts[k]

DigitVal(c) == (CHOOSE j \in 1..10 : DigitChars[j] = c) - 1

RECURSIVE NumVal(_)
\* the number a sequence of decimal digits writes
NumVal(ds) ==
    IF Len(ds) = 0 THEN 0
    ELSE NumVal(SubSeq(ds, 1, Len(ds) - 1)) * 10 + DigitVal(ds[Len(ds)])

Positions(ts, tok) == {k \in 1..Len(ts) : ts[k] = tok}

\* reads "<digits>.<digits>": the whole part, and the digits after the point
ReadFixed(ts) ==
    IF Cardinality(Positions(ts, ".")) /= 1
    THEN [ok |-> FALSE, whole |-> 0, frac |-> <<>>]
    ELSE LET p == CHOOSE k \in Positions(ts, ".") : TRUE
             w == SubSeq(ts, 1, p - 1)
             f == SubSeq(ts, p + 1, Len(ts))
         IN IF IsDigits(w) /\ IsDigits(f)
            THEN [ok |-> TRUE, whole |-> NumVal(w), frac |-> f]
            ELSE [ok |-> FALSE, whole |-> 0, frac |-> <<>>]

Unreadable == [unit |-> "?", minutes |-> 0, ms |-> 0]

\* reads a rendered duration back: its unit ("ms", "s", or "m" for minutes
\* plus seconds), the whole minutes, and the milliseconds the rest amounts to
ReadTime(ts) ==
    IF Len(ts) < 2 THEN Unreadable
    ELSE LET unit == ts[Len(ts)]
             body == SubSeq(ts, 1, Len(ts) - 1)
         IN IF unit = "ms"
            THEN LET r == ReadFixed(body)
                 IN IF r.ok /\ r.frac = <<"0", "0">>
                    THEN [unit |-> "ms", minutes |-> 0, ms |-> r.whole]
                    ELSE Unreadable
            ELSE IF unit /= "s" THEN Unreadable
            ELSE IF Cardinality(Positions(body, "m ")) = 1
            THEN LET q == CHOOSE k \in Positions(body, "m ") : TRUE
                     m == SubSeq(body, 1, q - 1)
                     r == ReadFixed(SubSeq(body, q + 1, Len(body)))
                 IN IF IsDigits(m) /\ r.ok /\ Len(r.frac) = 3
                    THEN [unit |-> "m", minutes |-> NumVal(m),
                          ms |-> r.whole * 1000 + NumVal(r.frac)]
                    ELSE Unreadable
            ELSE LET r == ReadFixed(body)
                 IN IF r.ok /\ Len(r.frac) = 3
                    THEN [unit |-> "s", minutes |-> 0,
                          ms |-> r.whole * 1000 + NumVal(r.frac)]
                    ELSE Unreadable

\* C10: the completion line renders a duration d (whole milliseconds) in
\* exactly one unit: milliseconds when d is below 1 s, seconds from 1 s up to
\* but excluding 60 s, and from 60 s on whole minutes m = d div 60 s plus the
\* remaining seconds r = d mod 60 s, with 0 <= r < 60 s and m * 60 s + r = d;
\* 0.5 s is 500.00ms, 2.5 s is 2.500s, 125.5 s is 2m 5.500s.  measure_api_call
\* renders d below 1 s the same way and every d of 1 s or more in seconds.
C10_DurationFormat ==
    last.op = "format" =>
        LET d == inp.d
            t == ReadTime(last.time_str)
            a == ReadTime(last.api_time_str)
        IN /\ d < 1000 => t = [unit |-> "ms", minutes |-> 0, ms |-> d]
           /\ (d >= 1000 /\ d < 60000) => t = [unit |-> "s", minutes |-> 0, ms |-> d]
           /\ d >= 60000 =>
                 /\ t.unit = "m"
                 /\ t.minutes = d \div 60000
                 /\ t.ms = d % 60000
                 /\ 0 <= t.ms /\ t.ms < 60000
                 /\ t.minutes * 60000 + t.ms = d
           /\ d < 1000 => a = [unit |-> "ms", minutes |-> 0, ms |-> d]
           /\ d >= 1000 => a = [unit |-> "s", minutes |-> 0, ms |-> d]
           /\ d = 500 => last.time_str = <<"5","0","0",".","0","0","ms">>
           /\ d = 2500 => last.time_str = <<"2",".","5","0","0","s">>
           /\ d = 125500 => last.time_str = <<"2","m ","5",".","5","0","0","s">>

\* 125.5 s was rendered, as minutes and seconds by the completion line and
\* as seconds by measure_api_call
C10_Witness ==
    /\ last.op = "format"
    /\ inp.d = 125500
    /\ ReadTime(last.time_str) = [unit |-> "m", minutes |-> 2, ms |-> 5500]
    /\ ReadTime(last.api_time_str) = [unit |-> "s", minutes |-> 0, ms |-> 125500]

---------------------------------------------------------------------------
(* C4, C5, C6: construction and the sinks *)

\* C4: once a Logger instance is constructed, the sinks it writes to stay
\* the file sink on the file it opened and the console sink, both at the
\* threshold its construction set, whatever operations and further
\* constructions follow.
C4_SinksFixedForLifetime ==
    \A self \in 1..Len(loggers) :
        LET hs == ChannelOf(self).handlers
        IN /\ Len(hs) = 2
           /\ hs[1].kind = "file"
           /\ hs[1].path = OwnLogFile(self)
           /\ hs[2].kind = "console"
           /\ hs[1].level = HandlerLevel(loggers[self].log_level)
           /\ hs[2].level = HandlerLevel(loggers[self].log_level)

\* C5: constructing a Logger with a valid level string, in any letter case,
\* leaves a file sink and a console sink at the same threshold, the named
\* severity (DEBUG for "all"); afterwards a message sent through
\* debug/info/warning/error/critical is written to the file sink if and only
\* if it is written to the console sink, and that is exactly when its
\* severity is at or above that threshold.
C5_SinksFilterAtNamedLevel ==
    /\ (last.op = "Logger" /\ IsSelector(last.level)) =>
          LET hs == ChannelOf(last.self).handlers
          IN /\ Len(hs) = 2
             /\ hs[1].kind = "file"
             /\ hs[2].kind = "console"
             /\ hs[1].level = SeverityNamed(last.level)
             /\ hs[2].level = SeverityNamed(last.level)
    /\ (last.op \in DirectOps /\ IsSelector(loggers[last.self].log_level)) =>
          /\ Len(Records) = 1
          /\ Records[1].sev = SeverityOfOp(last.op)
          /\ Records[1].msg = last.message
          /\ WrittenToFile(Records[1]) <=> WrittenToConsole(Records[1])
          /\ WrittenToFile(Records[1])
                <=> (SeverityOfOp(last.op) >= SeverityNamed(loggers[last.self].log_level))

\* C6: constructing a Logger with a level string that is neither a level nor
\* "all" does not raise, leaves both sinks at INFO, and creates exactly one
\* WARNING record about the invalid level, which is written to the Logger's
\* file sink and console sink.
C6_InvalidLevelWarned ==
    (last.op = "Logger" /\ ~IsSelector(last.level)) =>
        LET hs == ChannelOf(last.self).handlers
            IsWarning(e) == IsRecord(e) /\ e.sev = WARNING
            warnings == SelectSeq(last.events, IsWarning)
        IN /\ last.result.kind = "return"
           /\ Len(hs) = 2
           /\ hs[1].level = INFO
           /\ hs[2].level = INFO
           /\ Len(warnings) = 1
           /\ Contains(warnings[1].msg, <<"Invalid log level '">>)
           /\ WrittenToFile(warnings[1])
           /\ WrittenToConsole(warnings[1])

---------------------------------------------------------------------------
(* C1, C2, C3: calls of a decorated function *)

\* the "starting" records and the completion records of the last call
IsStarting(e) == IsRecord(e) /\ Contains(e.msg, <<"Starting execution: ">>)

IsCompletion(e) == IsRecord(e) /\ Contains(e.msg, <<" | Execution Time: ">>)

Startings == SelectSeq(last.events, IsStarting)

Completions == SelectSeq(last.events, IsCompletion)

\* the threshold the decorator of the last call was created with
ThresholdOfCall == wrappers[last.w].threshold_seconds

\* C1: a call of a decorated function whose body returns normally returns
\* the body's value and does not raise; it creates exactly one "starting"
\* record, first, and then exactly one completion record, or none, and none
\* only when the decorator has a threshold and the call took less than it.
C1_NormalReturn ==
    (last.op = "wrapper" /\ last.body.kind = "return") =>
        /\ last.result = Return(last.body.value)
        /\ Len(Startings) = 1
        /\ IsStarting(last.events[1])
        /\ Len(Records) = 1 + Len(Completions)
        /\ \/ Len(Completions) = 1
           \/ /\ Len(Completions) = 0
              /\ ThresholdOfCall /= NoneVal
              /\ last.took < The(ThresholdOfCall)

\* C2: a call of a decorated function whose body raises E lets that same E
\* out, and before that creates exactly one completion record, at ERROR,
\* containing the text of E.
C2_ErrorPropagates ==
    (last.op = "wrapper" /\ last.body.kind = "raise") =>
        /\ last.result = Raise(last.body.exc)
        /\ Len(Completions) = 1
        /\ Completions[1].sev = ERROR
        /\ Contains(Completions[1].msg, last.body.exc.text)

\* C3: a decorator created with threshold T suppresses the completion record
\* of a call that took less than T and lets through that of a call that took
\* T or more, each decorator by its own T.
C3_ThresholdPerDecorator ==
    (last.op = "wrapper" /\ last.body.kind = "return" /\ ThresholdOfCall /= NoneVal) =>
        /\ last.took < The(ThresholdOfCall) => Len(Completions) = 0
        /\ last.took >= The(ThresholdOfCall) => Len(Completions) = 1

---------------------------------------------------------------------------
(* C9: the severity of the completion record *)

\* C9: for every level selector (DEBUG, INFO, WARNING, ERROR, CRITICAL, ALL)
\* the completion record is created at ERROR when the call failed, else at
\* WARNING when it took more than 10 s, else at INFO when it took more than
\* 5 s, else at the configured level (DEBUG for ALL), and there its text is
\* the completion message itself.
C9_CompletionSeverity ==
    (last.op = "completion" /\ IsSelector(inp.level)) =>
        /\ Len(Records) = 1
        /\ IsCompletion(Records[1])
        /\ Records[1].sev =
              IF ~inp.outcome.success THEN ERROR
              ELSE IF inp.d > 10000 THEN WARNING
              ELSE IF inp.d > 5000 THEN INFO
              ELSE SeverityNamed(inp.level)
        /\ (inp.outcome.success /\ inp.d <= 5000) =>
              Records[1].msg = CompletionMsg(FuncName(inp.func), inp.d,
                                             inp.outcome.success, inp.outcome.error_msg)

===========================================================================
